---- MODULE Spec2Model ----
(***************************************************************************)
(* PyDeskband control pipe: the named-pipe listener (asyncHandlingLoop),   *)
(* the command dispatcher (processRequest), the label store (textInfos and *)
(* textInfoTarget), the message registry (msgToAction) and the Response    *)
(* builder, as written in ControlPipe.cpp / ControlPipe.h.                 *)
(*                                                                         *)
(* Requests and responses are the byte strings that travel over the pipe;  *)
(* tokens are the strings split() produces; numbers are parsed and         *)
(* formatted digit by digit as std::stoi / std::stol / std::stoull and     *)
(* std::to_string do.                                                      *)
(***************************************************************************)
EXTENDS Integers, Sequences, FiniteSets, TLC

VARIABLES
    pc,              \* position of the worker thread in asyncHandlingLoop
    hPipe,           \* "valid" | "invalid" (INVALID_HANDLE_VALUE)
    buffer,          \* the request bytes of the last successful ReadFile
    response,        \* the string processRequest returned last
    textInfos,       \* std::vector<TextInfo>
    textInfoTarget,  \* std::optional<size_t>
    msgToAction,     \* std::map<DWORD, std::string>
    shouldStop,      \* bool
    loggingEnabled,  \* static std::atomic<bool> of Logger.cpp
    entry,           \* history: the members as they were when processRequest
                     \* was entered last
    hist,            \* history: the newest answered requests, oldest first, each
                     \* with its response, the label count it found and the
                     \* connection it came over
    connections,     \* history: how many connections were accepted, counted up
                     \* to the limit the specification sets
    written,         \* history: WriteFile has been called for response
    broken,          \* history: a ReadFile or WriteFile of the current
                     \* connection has failed
    host,            \* the thread that owns the ControlPipe object: "running"
                     \* (the constructor returned) | "closing" (~ControlPipe has
                     \* run its body) | "terminated"; "failed" would be a
                     \* constructor that reported an error
    paint,           \* paintAllTextInfos on the owning thread: at is 0 outside
                     \* the for loop and else the position of its iterator, end
                     \* the position of the end iterator the loop took; stale:
                     \* the worker invalidated these iterators; used: the loop
                     \* went through an invalidated iterator
    handler          \* msgHandler on the owning thread: at is "idle" or "found"
                     \* (between the find and the operator[]), msg the message
                     \* id; history: ran and cmd, whether the last call reached
                     \* system() and with which string

\* the variables of the owning thread
uiThread == <<host, paint, handler>>

vars == <<pc, hPipe, buffer, response, textInfos, textInfoTarget, msgToAction,
          shouldStop, loggingEnabled, entry, hist, connections, written, broken,
          host, paint, handler>>

(***************************************************************************)
(* Bounds of the model.                                                    *)
(***************************************************************************)
\* the client stops sending NEW_TEXTINFO once the store holds this many labels
MaxLabels == 2
\* how many request/response pairs hist keeps in the scenario specifications
HistLen == 3
\* how many accepted connections the connection counter tells apart
MaxConnections == 3

(***************************************************************************)
(* Program constants.                                                      *)
(***************************************************************************)
BUFFER_SIZE == 8192
TRANSPORT_DELIM == ","

(***************************************************************************)
(* Characters and decimal numbers.                                         *)
(***************************************************************************)
CharAt(s, i) == SubSeq(s, i, i)

Digits == <<"0", "1", "2", "3", "4", "5", "6", "7", "8", "9">>

IsDigit(c) == \E d \in 1..10 : Digits[d] = c

DigitVal(c) == (CHOOSE d \in 1..10 : Digits[d] = c) - 1

\* isspace() in the "C" locale
IsSpace(c) == c \in {" ", "\t", "\n", "\r", "\f"}

RECURSIVE SkipSpace(_, _)
\* index of the first character of s at or after i that is not white space
SkipSpace(s, i) ==
    IF i <= Len(s) /\ IsSpace(CharAt(s, i)) THEN SkipSpace(s, i + 1) ELSE i

RECURSIVE DigitsEnd(_, _)
\* index just past the run of digits of s that starts at i
DigitsEnd(s, i) ==
    IF i <= Len(s) /\ IsDigit(CharAt(s, i)) THEN DigitsEnd(s, i + 1) ELSE i

\* the prefix strtol/strtoull look at: white space, an optional sign, digits
NumPrefix(s) ==
    LET p == SkipSpace(s, 1)
        neg == p <= Len(s) /\ CharAt(s, p) = "-"
        signed == p <= Len(s) /\ CharAt(s, p) \in {"-", "+"}
        d0 == IF signed THEN p + 1 ELSE p
        d1 == DigitsEnd(s, d0)
    IN [neg |-> neg, digits |-> SubSeq(s, d0, d1 - 1)]

INT_MIN == -2147483647 - 1

RECURSIVE NegAccum(_, _, _)
\* minus the value of the digit string ds from position i on, accumulated in
\* acc; "range" as soon as the magnitude exceeds 2^31
NegAccum(ds, i, acc) ==
    IF i > Len(ds) THEN [range |-> FALSE, val |-> acc]
    ELSE LET d == DigitVal(CharAt(ds, i))
         IN IF acc < -214748364 \/ (acc = -214748364 /\ d > 8)
            THEN [range |-> TRUE, val |-> 0]
            ELSE NegAccum(ds, i + 1, acc * 10 - d)

\* std::stoi (and std::stol: long is 32 bits wide in this build): the value, or
\* the exception std::invalid_argument / std::out_of_range
stoi(s) ==
    LET p == NumPrefix(s)
        a == NegAccum(p.digits, 1, 0)
    IN IF Len(p.digits) = 0 THEN [exc |-> "invalid_argument", val |-> 0]
       ELSE IF a.range \/ (~p.neg /\ a.val = INT_MIN)
            THEN [exc |-> "out_of_range", val |-> 0]
            ELSE [exc |-> "", val |-> IF p.neg THEN a.val ELSE -a.val]

stol(s) == stoi(s)

RECURSIVE StripZeros(_)
\* a digit string without its leading zeros ("0" for zero)
StripZeros(ds) ==
    IF Len(ds) > 1 /\ CharAt(ds, 1) = "0" THEN StripZeros(Tail(ds)) ELSE ds

RECURSIVE DecLess(_, _)
\* a < b for two digit strings of the same length
DecLess(a, b) ==
    IF Len(a) = 0 THEN FALSE
    ELSE LET x == DigitVal(CharAt(a, 1))
             y == DigitVal(CharAt(b, 1))
         IN IF x # y THEN x < y ELSE DecLess(Tail(a), Tail(b))

\* a <= b for two digit strings without leading zeros
DecLeq(a, b) ==
    \/ Len(a) < Len(b)
    \/ Len(a) = Len(b) /\ ~DecLess(b, a)

ULLONG_MAX == "18446744073709551615"

RECURSIVE DecComplement(_, _, _)
\* 2^64 - a for a digit string a with 1 <= a <= 2^64 - 1, computed as
\* (2^64 - 1) - a + 1 from the last digit to the first; i is the position,
\* carry the carry of the + 1
DecComplement(a, i, carry) ==
    IF i = 0 THEN ""
    ELSE LET j == Len(a) - (Len(ULLONG_MAX) - i)
             x == IF j >= 1 THEN DigitVal(CharAt(a, j)) ELSE 0
             m == DigitVal(CharAt(ULLONG_MAX, i))
             \* digit of (2^64 - 1) - a with borrow handled by the caller
             t == m - x + carry
         IN DecComplement(a, i - 1, IF t >= 10 THEN 1 ELSE IF t < 0 THEN -1 ELSE 0)
            \o Digits[((t + 10) % 10) + 1]

\* std::stoull on a 64-bit size_t: the value as a decimal string, or the
\* exception; a minus sign negates modulo 2^64 as strtoull does
stoull(s) ==
    LET p == NumPrefix(s)
        v == StripZeros(p.digits)
    IN IF Len(p.digits) = 0 THEN [exc |-> "invalid_argument", val |-> ""]
       ELSE IF ~DecLeq(v, ULLONG_MAX) THEN [exc |-> "out_of_range", val |-> ""]
       ELSE IF p.neg /\ v # "0"
            THEN [exc |-> "", val |-> StripZeros(DecComplement(v, Len(ULLONG_MAX), 1))]
            ELSE [exc |-> "", val |-> v]

RECURSIVE NatToString(_)
\* std::to_string of a non-negative number
NatToString(n) ==
    IF n < 10 THEN Digits[n + 1] ELSE NatToString(n \div 10) \o Digits[(n % 10) + 1]

RECURSIVE NegToString(_)
\* the digits of the magnitude of a negative number
NegToString(v) ==
    LET q == (v + 9) \div 10
        r == v - 10 * q
    IN IF v > -10 THEN Digits[1 - v] ELSE NegToString(q) \o Digits[1 - r]

\* std::to_string(long)
to_string_long(v) == IF v >= 0 THEN NatToString(v) ELSE "-" \o NegToString(v)

\* std::to_string(unsigned): a channel is kept as the int that has the same 32
\* bits, so a negative v stands for 2^32 + v = 10 * (429496729 + q) + r
to_string_unsigned(v) ==
    IF v >= 0 THEN NatToString(v)
    ELSE LET q == (v + 6) \div 10
             r == (v + 6) % 10
         IN NatToString(429496729 + q) \o Digits[r + 1]

\* the index a size_t kept as a decimal string stands for, when it is below n
\* (n is a vector size, far below 10^9)
SizeLess(t, n) == Len(t) <= 9 /\ -(NegAccum(t, 1, 0).val) < n

SizeVal(t) == -(NegAccum(t, 1, 0).val)

(***************************************************************************)
(* split, TextInfo, Response.                                              *)
(***************************************************************************)
RECURSIVE FindDelim(_, _, _)
\* index of the first delim in s at or after i, 0 when there is none
FindDelim(s, delim, i) ==
    IF i > Len(s) THEN 0
    ELSE IF CharAt(s, i) = delim THEN i ELSE FindDelim(s, delim, i + 1)

RECURSIVE split(_, _)
\* one std::getline per round while the stream is good: the text up to the
\* next delim, or up to the end of the string, which ends the loop
split(s, delim) ==
    LET p == FindDelim(s, delim, 1)
    IN IF p = 0 THEN <<s>>
       ELSE <<SubSeq(s, 1, p - 1)>> \o split(SubSeq(s, p + 1, Len(s)), delim)

\* TextInfo(): memset(this, 0, sizeof(TextInfo)); the zeroed std::string of
\* the MSVC library is the empty string
TextInfo ==
    [red |-> 0, green |-> 0, blue |-> 0, text |-> "",
     left |-> 0, top |-> 0, right |-> 0, bottom |-> 0]

\* a response that starts out as a success
Response_Ok == [status |-> "OK", fields |-> <<>>]

\* Response::Response
Response == [status |-> "BadCommand", fields |-> <<>>]

\* a builder that puts the newest field first
addField_Front(r, field) == [status |-> "OK", fields |-> <<field>> \o r.fields]

\* Response::addField
addField(r, field) == [status |-> "OK", fields |-> Append(r.fields, field)]

setStatus(r, status) == [r EXCEPT !.status = status]

setOk(r) == [r EXCEPT !.status = "OK"]

RECURSIVE JoinFields(_)
JoinFields(fields) ==
    IF fields = <<>> THEN ""
    ELSE Head(fields) \o TRANSPORT_DELIM \o JoinFields(Tail(fields))

\* a serializer that puts the delimiter between the tokens only
toString_NoLastDelim(r) ==
    LET s == r.status \o TRANSPORT_DELIM \o JoinFields(r.fields)
    IN SubSeq(s, 1, Len(s) - 1) \o "\n"

\* Response::toString
toString(r) == r.status \o TRANSPORT_DELIM \o JoinFields(r.fields) \o "\n"

(***************************************************************************)
(* The host window, as far as the dispatcher asks it.                      *)
(***************************************************************************)
\* GetClientRect(deskband->m_hwnd, &rc)
ClientRect == [left |-> 0, top |-> 0, right |-> 120, bottom |-> 40]

\* ControlPipe::getTextSize: GetTextExtentPoint32A, a fixed-pitch font
getTextSize(text) ==
    [cx |-> 8 * Len(text), cy |-> IF Len(text) = 0 THEN 0 ELSE 16]

(***************************************************************************)
(* The label store.                                                        *)
(***************************************************************************)
NoTarget == [has |-> FALSE, val |-> ""]

\* a target that is always the first label
SomeTarget_First(v) == [has |-> TRUE, val |-> "0"]

SomeTarget(v) == [has |-> TRUE, val |-> v]

\* getTextInfoTarget without the push_back on an empty store
getTextInfoTarget_NoCreate(infos, target) ==
    [textInfos |-> infos,
     ptr |-> IF target.has
             THEN IF SizeLess(target.val, Len(infos)) THEN SizeVal(target.val) + 1 ELSE 0
             ELSE Len(infos)]

\* ControlPipe::getTextInfoTarget: the store after the call and the label the
\* returned pointer designates (its position, 0 for NULL)
getTextInfoTarget(infos, target) ==
    LET grown == IF Len(infos) = 0 THEN Append(infos, TextInfo) ELSE infos
        ptr == IF target.has
               THEN IF SizeLess(target.val, Len(grown))
                    THEN SizeVal(target.val) + 1
                    ELSE 0
               ELSE Len(grown)
    IN [textInfos |-> grown, ptr |-> ptr]

(***************************************************************************)
(* The dispatcher.  A run of processRequest ends in one of three ways:     *)
(*   "return"     it returns Response::toString()                          *)
(*   "exception"  std::invalid_argument or std::out_of_range leaves it;    *)
(*                only TextInfoNullException is caught                     *)
(*   "fault"      lineSplit[k] with k >= lineSplit.size() faulted          *)
(* lineSplit[k] past the end is undefined: it faults, or it yields what    *)
(* the memory behind the vector holds, one of the tokens of Garbage; the   *)
(* reads past the end of one run all behave as the one g chosen for it.    *)
(***************************************************************************)
Garbage ==
    {[fault |-> TRUE, tok |-> ""], [fault |-> FALSE, tok |-> ""],
     [fault |-> FALSE, tok |-> "7"]}

\* lineSplit[k] of the C++ code (k counts from 0)
Tok(lineSplit, k, g) == IF k < Len(lineSplit) THEN lineSplit[k + 1] ELSE g.tok

\* lineSplit[k] faults
Faults(lineSplit, k, g) == k >= Len(lineSplit) /\ g.fault

\* the members processRequest reads and writes
Members(infos, target, m2a, stop, logging) ==
    [textInfos |-> infos, textInfoTarget |-> target, msgToAction |-> m2a,
     shouldStop |-> stop, loggingEnabled |-> logging]

Return(s, r) == [how |-> "return", response |-> toString(r), s |-> s]

Throw(s, exc) == [how |-> "exception", response |-> exc, s |-> s]

Fault(s) == [how |-> "fault", response |-> "", s |-> s]

\* catch (TextInfoNullException)
TargetInvalid(s) == Return(s, setStatus(Response, "TextInfoTargetInvalid"))

RECURSIVE StoreNumbers_SameToken(_, _, _, _, _, _)
\* StoreNumbers reading lineSplit[k] for every field
StoreNumbers_SameToken(s, ptr, fs, lineSplit, k, g) ==
    IF fs = <<>> THEN Return(s, setOk(Response))
    ELSE IF Faults(lineSplit, k, g) THEN Fault(s)
    ELSE LET n == stoi(Tok(lineSplit, k, g))
         IN IF n.exc # "" THEN Throw(s, n.exc)
            ELSE StoreNumbers_SameToken(
                     [s EXCEPT !.textInfos[ptr] =
                         [f \in DOMAIN @ |-> IF f = Head(fs) THEN n.val ELSE @[f]]],
                     ptr, Tail(fs), lineSplit, k, g)

RECURSIVE StoreNumbers(_, _, _, _, _, _)
\* textInfo->f = std::stoi(lineSplit[k]) for the fields fs in turn, the first
\* from lineSplit[k]; then response.setOk()
StoreNumbers(s, ptr, fs, lineSplit, k, g) ==
    IF fs = <<>> THEN Return(s, setOk(Response))
    ELSE IF Faults(lineSplit, k, g) THEN Fault(s)
    ELSE LET n == stoi(Tok(lineSplit, k, g))
         IN IF n.exc # "" THEN Throw(s, n.exc)
            ELSE StoreNumbers(
                     [s EXCEPT !.textInfos[ptr] =
                         [f \in DOMAIN @ |-> IF f = Head(fs) THEN n.val ELSE @[f]]],
                     ptr, Tail(fs), lineSplit, k + 1, g)

\* the GET branch, lines 208-266
ProcessGet(s, ptr, lineSplit, g) ==
    IF Faults(lineSplit, 1, g) THEN Fault(s)
    ELSE LET key == Tok(lineSplit, 1, g)
             textInfo == s.textInfos[ptr]
         IN CASE key = "WIDTH" ->
                   Return(s, addField(Response,
                       to_string_long(ClientRect.right - ClientRect.left)))
              [] key = "HEIGHT" ->
                   Return(s, addField(Response,
                       to_string_long(ClientRect.bottom - ClientRect.top)))
              [] key = "TEXTSIZE" ->
                   IF Faults(lineSplit, 2, g) THEN Fault(s)
                   ELSE LET size == getTextSize(Tok(lineSplit, 2, g))
                        IN Return(s, addField(addField(Response,
                               to_string_long(size.cx)), to_string_long(size.cy)))
              [] key = "TEXTINFOCOUNT" ->
                   Return(s, addField(Response, NatToString(Len(s.textInfos))))
              [] key = "TEXTINFO_TARGET" ->
                   IF s.textInfoTarget.has
                   THEN Return(s, addField(Response, s.textInfoTarget.val))
                   ELSE Return(s, addField(Response, "None"))
              [] key = "RGB" ->
                   IF ptr = 0 THEN TargetInvalid(s)
                   ELSE Return(s, addField(addField(addField(Response,
                            to_string_unsigned(textInfo.red)),
                            to_string_unsigned(textInfo.green)),
                            to_string_unsigned(textInfo.blue)))
              [] key = "TEXT" ->
                   IF ptr = 0 THEN TargetInvalid(s)
                   ELSE Return(s, addField(Response, textInfo.text))
              [] key = "XY" ->
                   IF ptr = 0 THEN TargetInvalid(s)
                   ELSE Return(s, addField(addField(Response,
                            to_string_long(textInfo.left)),
                            to_string_long(textInfo.top)))
              [] key = "TRANSPORT_VERSION" ->
                   IF ptr = 0 THEN TargetInvalid(s)
                   ELSE Return(s, addField(Response, "1"))
              [] OTHER -> Return(s, Response)

\* an erase that leaves the entry in place
MapErase_Keep(m2a, msg) == m2a

\* msgToAction.erase(msg)
MapErase(m2a, msg) == [k \in DOMAIN m2a \ {msg} |-> m2a[k]]

\* msgToAction[msg] = sysCall
MapStore(m2a, msg, sysCall) ==
    [k \in DOMAIN m2a \cup {msg} |-> IF k = msg THEN sysCall ELSE m2a[k]]

\* a store of the text into the newest label, whatever the target is
SetText_Last(s, ptr, text) == [s EXCEPT !.textInfos[Len(s.textInfos)].text = text]

\* textInfo->text = std::string(lineSplit[2])
SetText(s, ptr, text) == [s EXCEPT !.textInfos[ptr].text = text]

\* the SET branch, lines 267-334
ProcessSet(s, ptr, lineSplit, g) ==
    IF Faults(lineSplit, 1, g) THEN Fault(s)
    ELSE LET key == Tok(lineSplit, 1, g)
         IN CASE key = "RGB" ->
                   IF ptr = 0 THEN TargetInvalid(s)
                   ELSE StoreNumbers(s, ptr, <<"red", "green", "blue">>, lineSplit, 2, g)
              [] key = "TEXT" ->
                   IF ptr = 0 THEN TargetInvalid(s)
                   ELSE IF Faults(lineSplit, 2, g) THEN Fault(s)
                   ELSE Return(SetText(s, ptr, Tok(lineSplit, 2, g)), setOk(Response))
              [] key = "XY" ->
                   IF ptr = 0 THEN TargetInvalid(s)
                   ELSE StoreNumbers(s, ptr, <<"left", "top">>, lineSplit, 2, g)
              [] key = "WIN_MSG" ->
                   IF Faults(lineSplit, 2, g) THEN Fault(s)
                   ELSE LET msg == stoi(Tok(lineSplit, 2, g))
                        IN IF msg.exc # "" THEN Throw(s, msg.exc)
                           ELSE IF Len(lineSplit) < 4
                           THEN IF msg.val \in DOMAIN s.msgToAction
                                THEN Return([s EXCEPT !.msgToAction = MapErase(@, msg.val)],
                                            setOk(Response))
                                ELSE Return(s, setStatus(Response, "MSG_NOT_FOUND"))
                           ELSE Return([s EXCEPT !.msgToAction =
                                           MapStore(@, msg.val, lineSplit[4])],
                                       setOk(Response))
              [] key = "TEXTINFO_TARGET" ->
                   IF Len(lineSplit) = 3
                   THEN LET n == stoull(lineSplit[3])
                        IN IF n.exc # "" THEN Throw(s, n.exc)
                           ELSE Return([s EXCEPT !.textInfoTarget = SomeTarget(n.val)],
                                       setOk(Response))
                   ELSE Return([s EXCEPT !.textInfoTarget = NoTarget], setOk(Response))
              [] key = "LOGGING_ENABLED" ->
                   IF Faults(lineSplit, 2, g) THEN Fault(s)
                   ELSE LET n == stoi(Tok(lineSplit, 2, g))
                        IN IF n.exc # "" THEN Throw(s, n.exc)
                           ELSE Return([s EXCEPT !.loggingEnabled = (n.val # 0)],
                                       setOk(Response))
              [] OTHER -> Return(s, Response)

\* a clear that forgets the target as well
clear_WithTarget(s) == [s EXCEPT !.textInfos = <<>>, !.textInfoTarget = NoTarget]

\* textInfos.clear()
clear(s) == [s EXCEPT !.textInfos = <<>>]

\* ControlPipe::processRequest on the members m; g is what a read past the end
\* of lineSplit does
processRequest(message, m, g) ==
    LET lineSplit == split(message, TRANSPORT_DELIM)
        t == getTextInfoTarget(m.textInfos, m.textInfoTarget)
        s == [m EXCEPT !.textInfos = t.textInfos]
        ptr == t.ptr
        verb == lineSplit[1]
    IN CASE verb = "GET" -> ProcessGet(s, ptr, lineSplit, g)
         [] verb = "SET" -> ProcessSet(s, ptr, lineSplit, g)
         [] verb = "NEW_TEXTINFO" ->
              Return([s EXCEPT !.textInfos = Append(@, TextInfo)], setOk(Response))
         [] verb = "PAINT" -> Return(s, setOk(Response))
         [] verb = "CLEAR" -> Return(clear(s), setOk(Response))
         [] verb = "STOP" -> Return([s EXCEPT !.shouldStop = TRUE], setOk(Response))
         [] verb = "SENDMESSAGE" ->
              IF Faults(lineSplit, 1, g) THEN Fault(s)
              ELSE LET n == stoi(Tok(lineSplit, 1, g))
                   IN IF n.exc # "" THEN Throw(s, n.exc)
                      ELSE Return(s, setOk(Response))
         [] OTHER -> Return(s, Response)

(***************************************************************************)
(* The worker thread: ControlPipe::ControlPipe and asyncHandlingLoop.      *)
(***************************************************************************)
TheMembers == Members(textInfos, textInfoTarget, msgToAction, shouldStop, loggingEnabled)

\* the newest keep entries of h
Newest(h, keep) == IF Len(h) <= keep THEN h ELSE SubSeq(h, Len(h) - keep + 1, Len(h))

\* ControlPipe::ControlPipe: CreateNamedPipe yields a handle or
\* INVALID_HANDLE_VALUE; the thread starts at the head of the loop
Init ==
    /\ pc = "loop"
    /\ hPipe \in {"valid", "invalid"}
    /\ buffer = ""
    /\ response = ""
    /\ textInfos = <<>>
    /\ textInfoTarget = NoTarget
    /\ msgToAction = <<>>
    /\ shouldStop = FALSE
    /\ loggingEnabled = FALSE
    /\ entry = Members(<<>>, NoTarget, <<>>, FALSE, FALSE)
    /\ hist = <<>>
    /\ connections = 0
    /\ written = FALSE
    /\ broken = FALSE
    /\ host = "running"
    /\ paint = [at |-> 0, end |-> 0, stale |-> FALSE, used |-> FALSE]
    /\ handler = [at |-> "idle", msg |-> 0, ran |-> FALSE, cmd |-> ""]

\* while (hPipe != INVALID_HANDLE_VALUE), line 140
LoopTest ==
    /\ pc = "loop"
    /\ pc' = IF hPipe # "invalid" THEN "connect" ELSE "exited"
    /\ UNCHANGED <<hPipe, buffer, response, textInfos, textInfoTarget, msgToAction,
                   shouldStop, loggingEnabled, entry, hist, connections, written,
                   broken, uiThread>>

\* ConnectNamedPipe(hPipe, NULL) != FALSE, line 143: a client connected, or
\* the call failed; on a closed handle it can only fail
ConnectNamedPipe(limit) ==
    /\ pc = "connect"
    /\ \E ok \in IF hPipe = "valid" THEN BOOLEAN ELSE {FALSE} :
          /\ pc' = IF ok THEN "read" ELSE "disconnect"
          /\ connections' = IF ok /\ connections < limit THEN connections + 1
                            ELSE connections
    /\ UNCHANGED <<hPipe, buffer, response, textInfos, textInfoTarget, msgToAction,
                   shouldStop, loggingEnabled, entry, hist, written, broken, uiThread>>

\* ReadFile(hPipe, buffer, sizeof(buffer) - 1, ...), lines 145-149: the client
\* sent one of the requests, or the peer is gone and the call fails; on a
\* closed handle it can only fail
ReadFile(requests) ==
    /\ pc = "read"
    /\ \/ \E message \in requests :
            /\ hPipe = "valid"
            /\ message = "NEW_TEXTINFO" => Len(textInfos) < MaxLabels
            /\ buffer' = SubSeq(message, 1,
                                IF Len(message) < BUFFER_SIZE THEN Len(message)
                                ELSE BUFFER_SIZE - 1)
            /\ pc' = "process"
            /\ UNCHANGED broken
       \/ /\ pc' = "disconnect"
          /\ broken' = TRUE
          /\ UNCHANGED buffer
    /\ UNCHANGED <<hPipe, response, textInfos, textInfoTarget, msgToAction,
                   shouldStop, loggingEnabled, entry, hist, connections, written,
                   uiThread>>

\* what a push_back or a clear of textInfos does to the iterators of a render
\* loop under way: clear invalidates them, push_back invalidates them when the
\* vector moves its storage (moved), which depends on its capacity
AfterWrite(p, before, after, moved) ==
    IF p.at = 0 THEN p
    ELSE IF after < before THEN [p EXCEPT !.stale = TRUE]
    ELSE IF after > before THEN [p EXCEPT !.stale = p.stale \/ moved]
    ELSE p

\* std::string response = processRequest(sBuffer), line 152; an exception that
\* leaves processRequest leaves the thread function and ends the process
Dispatch(keep) ==
    /\ pc = "process"
    /\ \E g \in Garbage :
          LET out == processRequest(buffer, TheMembers, g)
          IN /\ textInfos' = out.s.textInfos
             /\ textInfoTarget' = out.s.textInfoTarget
             /\ msgToAction' = out.s.msgToAction
             /\ shouldStop' = out.s.shouldStop
             /\ loggingEnabled' = out.s.loggingEnabled
             /\ entry' = TheMembers
             /\ IF out.how = "return"
                THEN /\ pc' = "write"
                     /\ response' = out.response
                     /\ hist' = Newest(Append(hist, [req |-> buffer,
                                                     resp |-> out.response,
                                                     count |-> Len(textInfos),
                                                     conn |-> connections]), keep)
                ELSE /\ pc' = IF out.how = "exception" THEN "terminated" ELSE "faulted"
                     /\ UNCHANGED <<response, hist>>
             /\ \E moved \in IF paint.at = 0 THEN {FALSE} ELSE BOOLEAN :
                   paint' = AfterWrite(paint, Len(textInfos), Len(out.s.textInfos),
                                       moved)
    /\ written' = FALSE
    /\ UNCHANGED <<hPipe, buffer, connections, broken, host, handler>>

\* the loop without its WriteFile call
WriteFile_Skip(results) ==
    /\ pc = "write"
    /\ pc' = "checkstop"
    /\ UNCHANGED <<hPipe, buffer, response, textInfos, textInfoTarget, msgToAction,
                   shouldStop, loggingEnabled, entry, hist, connections, written,
                   broken, uiThread>>

\* if (response.size()) { bool out = WriteFile(...); }, lines 155-162: the
\* response reaches the client or the call fails (results holds the outcomes
\* the transport can produce); out is not looked at again
WriteFile(results) ==
    /\ pc = "write"
    /\ written' = TRUE
    /\ \E ok \in results : broken' = (broken \/ ~ok)
    /\ pc' = "checkstop"
    /\ UNCHANGED <<hPipe, buffer, response, textInfos, textInfoTarget, msgToAction,
                   shouldStop, loggingEnabled, entry, hist, connections, uiThread>>

\* the stop branch leaving the inner loop without closing the handle
CheckStop_NoClose ==
    /\ pc = "checkstop"
    /\ pc' = IF shouldStop THEN "disconnect" ELSE "read"
    /\ UNCHANGED <<hPipe, buffer, response, textInfos, textInfoTarget, msgToAction,
                   shouldStop, loggingEnabled, entry, hist, connections, written,
                   broken, uiThread>>

\* if (shouldStop) { CloseHandle(hPipe); hPipe = INVALID_HANDLE_VALUE; break; },
\* lines 164-170, else the next ReadFile
CheckStop ==
    /\ pc = "checkstop"
    /\ IF shouldStop
       THEN hPipe' = "invalid" /\ pc' = "disconnect"
       ELSE pc' = "read" /\ UNCHANGED hPipe
    /\ UNCHANGED <<buffer, response, textInfos, textInfoTarget, msgToAction,
                   shouldStop, loggingEnabled, entry, hist, connections, written,
                   broken, uiThread>>

\* a listener whose labels live only as long as the connection
DisconnectNamedPipe_Forget ==
    /\ pc = "disconnect"
    /\ pc' = "loop"
    /\ broken' = FALSE
    /\ textInfos' = <<>>
    /\ UNCHANGED <<hPipe, buffer, response, textInfoTarget, msgToAction,
                   shouldStop, loggingEnabled, entry, hist, connections, written,
                   uiThread>>

\* DisconnectNamedPipe(hPipe), line 173: the connection, if any, is over
DisconnectNamedPipe ==
    /\ pc = "disconnect"
    /\ pc' = "loop"
    /\ broken' = FALSE
    /\ UNCHANGED <<hPipe, buffer, response, textInfos, textInfoTarget, msgToAction,
                   shouldStop, loggingEnabled, entry, hist, connections, written,
                   uiThread>>

\* the process is alive and the ControlPipe object exists
Alive == host = "running" /\ pc \notin {"terminated", "faulted", "aborted"}

(***************************************************************************)
(* The owning thread: the render callback paintAllTextInfos.  Neither it   *)
(* nor processRequest takes a lock; ControlPipe has no mutex member.       *)
(***************************************************************************)
\* for (auto& textInfo : textInfos), line 83: the loop takes begin() and end()
PaintBegin ==
    /\ Alive
    /\ paint.at = 0
    /\ paint' = [at |-> 1, end |-> Len(textInfos) + 1, stale |-> FALSE,
                 used |-> FALSE]
    /\ UNCHANGED <<pc, hPipe, buffer, response, textInfos, textInfoTarget,
                   msgToAction, shouldStop, loggingEnabled, entry, hist, connections,
                   written, broken, host, handler>>

\* one pass of the loop body, lines 84-126.  With a device context, composition
\* and a theme the label is measured and its rect.right and rect.bottom are
\* written (lines 103-104); with a device context and no composition the
\* process aborts (line 112); else nothing is drawn.  Through an invalidated
\* iterator the pass reads and writes storage the vector no longer owns: it
\* faults, or it goes on and the label store is left as it is.
PaintLabel ==
    /\ Alive
    /\ paint.at # 0 /\ paint.at # paint.end
    /\ IF paint.stale
       THEN /\ \/ /\ pc' = "faulted"
                  /\ paint' = [paint EXCEPT !.used = TRUE]
               \/ /\ paint' = [paint EXCEPT !.at = @ + 1, !.used = TRUE]
                  /\ UNCHANGED pc
            /\ UNCHANGED textInfos
       ELSE \E way \in {"draw", "skip", "abort"} :
               /\ pc' = IF way = "abort" THEN "aborted" ELSE pc
               /\ paint' = IF way = "abort" THEN paint
                           ELSE [paint EXCEPT !.at = @ + 1]
               /\ textInfos' =
                     IF way = "draw"
                     THEN LET textInfo == textInfos[paint.at]
                              textSize == getTextSize(textInfo.text)
                          IN [textInfos EXCEPT
                                ![paint.at].right = textInfo.left + textSize.cx,
                                ![paint.at].bottom = textInfo.top + textSize.cy]
                     ELSE textInfos
    /\ UNCHANGED <<hPipe, buffer, response, textInfoTarget, msgToAction, shouldStop,
                   loggingEnabled, entry, hist, connections, written, broken, host,
                   handler>>

\* the loop ends when the iterator equals the end iterator it took, lines 83
\* and 127-130
PaintEnd ==
    /\ Alive
    /\ paint.at # 0 /\ paint.at = paint.end
    /\ paint' = [paint EXCEPT !.at = 0]
    /\ UNCHANGED <<pc, hPipe, buffer, response, textInfos, textInfoTarget,
                   msgToAction, shouldStop, loggingEnabled, entry, hist, connections,
                   written, broken, host, handler>>

(***************************************************************************)
(* The owning thread: ~ControlPipe.  stopAsyncResponseThread and           *)
(* sendStopMessageToAsyncResponseThread are declared in ControlPipe.h and  *)
(* defined nowhere; the destructor is the only shutdown code there is.     *)
(***************************************************************************)
\* CloseHandle(hPipe); hPipe = INVALID_HANDLE_VALUE;, lines 55-59
Destructor ==
    /\ Alive
    /\ hPipe' = "invalid"
    /\ host' = "closing"
    /\ UNCHANGED <<pc, buffer, response, textInfos, textInfoTarget, msgToAction,
                   shouldStop, loggingEnabled, entry, hist, connections, written,
                   broken, paint, handler>>

\* the members are destroyed after the body; asyncResponseThread was never
\* joined or detached, so std::thread::~thread calls std::terminate
ThreadDestructor ==
    /\ host = "closing"
    /\ host' = "terminated"
    /\ pc' = "terminated"
    /\ UNCHANGED <<hPipe, buffer, response, textInfos, textInfoTarget, msgToAction,
                   shouldStop, loggingEnabled, entry, hist, connections, written,
                   broken, paint, handler>>

(***************************************************************************)
(* The owning thread: the message callback msgHandler.                     *)
(***************************************************************************)
\* if (msgToAction.find(msg) != msgToAction.end()), line 63, else return 0
HandlerFind(msgs) ==
    /\ Alive
    /\ handler.at = "idle"
    /\ \E msg \in msgs :
          handler' = [at |-> IF msg \in DOMAIN msgToAction THEN "found" ELSE "idle",
                      msg |-> msg, ran |-> FALSE, cmd |-> ""]
    /\ UNCHANGED <<pc, hPipe, buffer, response, textInfos, textInfoTarget,
                   msgToAction, shouldStop, loggingEnabled, entry, hist, connections,
                   written, broken, host, paint>>

\* return system(msgToAction[msg].c_str()), line 65: operator[] yields the
\* mapped string, and for a key that is not in the map it inserts the key with
\* an empty string and yields that
HandlerRun ==
    /\ Alive
    /\ handler.at = "found"
    /\ msgToAction' = IF handler.msg \in DOMAIN msgToAction THEN msgToAction
                      ELSE MapStore(msgToAction, handler.msg, "")
    /\ handler' = [handler EXCEPT !.at = "idle", !.ran = TRUE,
                                  !.cmd = msgToAction'[handler.msg]]
    /\ UNCHANGED <<pc, hPipe, buffer, response, textInfos, textInfoTarget, shouldStop,
                   loggingEnabled, entry, hist, connections, written, broken, host,
                   paint>>

(***************************************************************************)
(* What the client reads from a response line.                             *)
(***************************************************************************)
\* the tokens of a response line: the status, then the fields
ResponseTokens(line) ==
    LET body == SubSeq(line, 1, Len(line) - 1)
        toks == split(body, TRANSPORT_DELIM)
    IN SubSeq(toks, 1, Len(toks) - 1)

ResponseStatus(line) == Head(ResponseTokens(line))

ResponseFields(line) == Tail(ResponseTokens(line))

\* processRequest has just run on buffer, from the members kept in entry
Dispatched == pc \in {"write", "terminated", "faulted"}

\* processRequest has just returned
Returned == pc = "write"

\* the label a NEW_TEXTINFO or an implicit creation appends, as the client sees it
IsDefaultLabel(l) ==
    /\ l.red = 0 /\ l.green = 0 /\ l.blue = 0
    /\ l.text = ""
    /\ l.left = 0 /\ l.top = 0

(***************************************************************************)
(* Counting labels: NEW_TEXTINFO, CLEAR, GET TEXTINFOCOUNT, GET TEXT.      *)
(***************************************************************************)
RequestsCount ==
    {"NEW_TEXTINFO", "CLEAR", "GET,TEXTINFOCOUNT", "GET,TEXT", "SET,TEXT,hi",
     "SET,TEXTINFO_TARGET,0", "SET,TEXTINFO_TARGET"}

NextCount ==
    \/ LoopTest
    \/ ConnectNamedPipe(0)
    \/ ReadFile(RequestsCount)
    \/ Dispatch(HistLen)
    \/ WriteFile({TRUE})
    \/ CheckStop
    \/ DisconnectNamedPipe

SpecCount == Init /\ [][NextCount]_vars

\* C2: NEW_TEXTINFO, from every state, the empty store included, increases the
\* label count by exactly 1, and the appended label has colour 0,0,0, empty
\* text and position (0,0).
C2_NewAddsExactlyOne ==
    (Dispatched /\ buffer = "NEW_TEXTINFO") =>
        /\ Returned
        /\ Len(textInfos) = Len(entry.textInfos) + 1
        /\ IsDefaultLabel(textInfos[Len(textInfos)])

\* C3: after CLEAR the label count is 0, and a GET TEXTINFOCOUNT processed
\* immediately afterwards returns OK with the single field 0.
C3_ClearThenCountIsZero ==
    /\ (Dispatched /\ buffer = "CLEAR") => (Returned /\ Len(textInfos) = 0)
    /\ (Returned /\ Len(hist) >= 2 /\ hist[Len(hist) - 1].req = "CLEAR"
           /\ hist[Len(hist)].req = "GET,TEXTINFOCOUNT") =>
          /\ ResponseStatus(hist[Len(hist)].resp) = "OK"
          /\ ResponseFields(hist[Len(hist)].resp) = <<"0">>

\* C4: with the target unset and the store empty, GET TEXT answers OK with one
\* field holding the empty text, and the store then holds exactly one label
\* with default values.
C4_GetTextCreatesDefault ==
    (Dispatched /\ buffer = "GET,TEXT" /\ ~entry.textInfoTarget.has
        /\ entry.textInfos = <<>>) =>
       /\ Returned
       /\ ResponseStatus(response) = "OK"
       /\ ResponseFields(response) = <<"">>
       /\ Len(textInfos) = 1
       /\ IsDefaultLabel(textInfos[1])

C4_Witness ==
    /\ Returned /\ buffer = "GET,TEXT"
    /\ ~entry.textInfoTarget.has /\ entry.textInfos = <<>>
    /\ response = "OK,,\n"

(***************************************************************************)
(* Colours: SET TEXTINFO_TARGET,i / SET RGB,r,g,b / GET RGB.               *)
(***************************************************************************)
RequestsRGB ==
    {"NEW_TEXTINFO", "SET,TEXTINFO_TARGET,0", "SET,TEXTINFO_TARGET,1",
     "SET,RGB,2147483647,255,0", "SET,RGB,2147483648,0,0",
     "GET,RGB"}

NextRGB ==
    \/ LoopTest
    \/ ConnectNamedPipe(0)
    \/ ReadFile(RequestsRGB)
    \/ Dispatch(HistLen)
    \/ WriteFile({TRUE})
    \/ CheckStop
    \/ DisconnectNamedPipe

SpecRGB == Init /\ [][NextRGB]_vars

\* tok is the decimal numeral of a non-negative integer
IsNumeral(tok) ==
    /\ Len(tok) >= 1
    /\ \A i \in 1..Len(tok) : IsDigit(CharAt(tok, i))
    /\ Len(tok) > 1 => CharAt(tok, 1) # "0"

\* req is SET TEXTINFO_TARGET,i for an index i below count
IsSetTargetBelow(req, count) ==
    LET toks == split(req, ",")
    IN /\ Len(toks) = 3
       /\ toks[1] = "SET" /\ toks[2] = "TEXTINFO_TARGET"
       /\ IsNumeral(toks[3]) /\ SizeLess(toks[3], count)

\* req is SET RGB,r,g,b for three numerals, each at most the numeral max
IsSetRGBUpTo(req, max) ==
    LET toks == split(req, ",")
    IN /\ Len(toks) = 5
       /\ toks[1] = "SET" /\ toks[2] = "RGB"
       /\ \A i \in 3..5 : IsNumeral(toks[i]) /\ (max # "" => DecLeq(toks[i], max))

\* SET TEXTINFO_TARGET,i with i below the count it found, then SET RGB,r,g,b
\* with r, g, b up to max: the SET RGB returns, and a GET RGB that follows is
\* answered OK with the fields r, g, b
RoundTripRGB(max) ==
    /\ (Dispatched /\ ~Returned /\ Len(hist) >= 1) =>
          ~(/\ IsSetTargetBelow(hist[Len(hist)].req, hist[Len(hist)].count)
            /\ IsSetRGBUpTo(buffer, max))
    /\ (Returned /\ Len(hist) >= 3) =>
          LET a == hist[Len(hist) - 2]
              b == hist[Len(hist) - 1]
              c == hist[Len(hist)]
          IN (/\ IsSetTargetBelow(a.req, a.count)
              /\ IsSetRGBUpTo(b.req, max)
              /\ c.req = "GET,RGB") =>
                 /\ ResponseStatus(c.resp) = "OK"
                 /\ ResponseFields(c.resp) = SubSeq(split(b.req, ","), 3, 5)

LabelFieldRequests ==
    {"GET,RGB", "GET,TEXT", "GET,XY", "SET,RGB,1,2,3", "SET,TEXT,hi", "SET,XY,3,4"}

RequestsTarget ==
    LabelFieldRequests \cup
    {"NEW_TEXTINFO", "CLEAR", "SET,TEXTINFO_TARGET,0", "SET,TEXTINFO_TARGET,5",
     "SET,TEXTINFO_TARGET"}

NextTarget ==
    \/ LoopTest
    \/ ConnectNamedPipe(0)
    \/ ReadFile(RequestsTarget)
    \/ Dispatch(0)
    \/ WriteFile({TRUE})
    \/ CheckStop
    \/ DisconnectNamedPipe

SpecTarget == Init /\ [][NextTarget]_vars

\* the explicit target of the members m is an index >= the label count
TargetPastEnd(m) ==
    m.textInfoTarget.has /\ ~SizeLess(m.textInfoTarget.val, Len(m.textInfos))

\* C5: whenever the explicit target index is >= the label count, each of GET
\* RGB, GET TEXT, GET XY, SET RGB, SET TEXT and SET XY is answered with
\* TextInfoTargetInvalid and no fields, without a fault, and the listener goes
\* on to the next ReadFile.
C5_PastEndIsInvalidTarget ==
    (buffer \in LabelFieldRequests /\ TargetPastEnd(entry)) =>
       /\ Dispatched =>
             /\ Returned
             /\ ResponseStatus(response) = "TextInfoTargetInvalid"
             /\ ResponseFields(response) = <<>>
       /\ pc = "checkstop" => (~shouldStop /\ hPipe = "valid")

\* C6: with an explicit target, a GET or SET on a label field that ends in
\* TextInfoTargetInvalid leaves the label sequence exactly as it was before the
\* request, also when the store was empty.
C6_InvalidTargetLeavesStore ==
    (Returned /\ buffer \in LabelFieldRequests /\ entry.textInfoTarget.has
        /\ ResponseStatus(response) = "TextInfoTargetInvalid") =>
       textInfos = entry.textInfos

(***************************************************************************)
(* The message registry: SET WIN_MSG.                                      *)
(***************************************************************************)
RequestsWinMsg ==
    {"SET,WIN_MSG,100,notepad.exe", "SET,WIN_MSG,100", "SET,WIN_MSG,200,calc.exe",
     "SET,WIN_MSG,200", "SET,WIN_MSG,2147483648,calc.exe", "SET,WIN_MSG,2147483648"}

NextWinMsg ==
    \/ LoopTest
    \/ ConnectNamedPipe(0)
    \/ ReadFile(RequestsWinMsg)
    \/ Dispatch(HistLen)
    \/ WriteFile({TRUE})
    \/ CheckStop
    \/ DisconnectNamedPipe

SpecWinMsg == Init /\ [][NextWinMsg]_vars

\* req is SET WIN_MSG,m with n tokens in all, m a numeral up to max
IsWinMsg(req, n, max) ==
    LET toks == split(req, ",")
    IN /\ Len(toks) = n
       /\ toks[1] = "SET" /\ toks[2] = "WIN_MSG"
       /\ IsNumeral(toks[3]) /\ DecLeq(toks[3], max)

\* the message id of a SET WIN_MSG request, as the client wrote it
WinMsgId(req) == split(req, ",")[3]

\* the registry m2a has an entry for the message id written as the numeral id
Mapped(m2a, id) == \E k \in DOMAIN m2a : to_string_unsigned(k) = id

\* the registry m2a without the entry of the message id written as id
Unmapped(m2a, id) ==
    [k \in {j \in DOMAIN m2a : to_string_unsigned(j) # id} |-> m2a[k]]

\* for the message ids up to max: SET WIN_MSG,m answers OK and removes the
\* entry when m is mapped, answers MSG_NOT_FOUND and leaves the registry alone
\* when it is not; SET WIN_MSG,m,a then SET WIN_MSG,m twice yields OK, OK,
\* MSG_NOT_FOUND
RemoveWinMsg(max) ==
    /\ (Dispatched /\ (IsWinMsg(buffer, 3, max) \/ IsWinMsg(buffer, 4, max))) =>
          Returned
    /\ (Returned /\ IsWinMsg(buffer, 3, max)) =>
          IF Mapped(entry.msgToAction, WinMsgId(buffer))
          THEN /\ ResponseStatus(response) = "OK"
               /\ msgToAction = Unmapped(entry.msgToAction, WinMsgId(buffer))
          ELSE /\ ResponseStatus(response) = "MSG_NOT_FOUND"
               /\ msgToAction = entry.msgToAction
    /\ (Returned /\ Len(hist) >= 3) =>
          LET a == hist[Len(hist) - 2]
              b == hist[Len(hist) - 1]
              c == hist[Len(hist)]
          IN (/\ IsWinMsg(a.req, 4, max)
              /\ IsWinMsg(b.req, 3, max) /\ WinMsgId(b.req) = WinMsgId(a.req)
              /\ c.req = b.req) =>
                 /\ ResponseStatus(a.resp) = "OK"
                 /\ ResponseStatus(b.resp) = "OK"
                 /\ ResponseStatus(c.resp) = "MSG_NOT_FOUND"

ShortRequests ==
    {"GET", "SET", "GET,TEXTSIZE", "SET,RGB,1,2", "SET,XY,3", "SET,TEXT",
     "SET,WIN_MSG", "SET,LOGGING_ENABLED", "SENDMESSAGE"}

\* a token that is no number where the verb reads a number
NonNumericRequests ==
    {"SET,RGB,1,x,3", "SET,XY,5,z", "SET,WIN_MSG,abc,calc.exe",
     "SET,TEXTINFO_TARGET,abc", "SET,LOGGING_ENABLED,yes", "SENDMESSAGE,abc"}

\* SET RGB / SET XY with an invalid second or third value
InvalidValueRequests == {"SET,RGB,1,x,3", "SET,XY,5,z"}

RequestsMalformed ==
    ShortRequests \cup NonNumericRequests \cup
    {"BOGUS", "GET,BOGUS", "SET,WIN_MSG,100", "SET,TEXTINFO_TARGET,5", "GET,RGB",
     "CLEAR", "SET,RGB,9,9,9"}

NextMalformed ==
    \/ LoopTest
    \/ ConnectNamedPipe(0)
    \/ ReadFile(RequestsMalformed)
    \/ Dispatch(0)
    \/ WriteFile({TRUE})
    \/ CheckStop
    \/ DisconnectNamedPipe

SpecMalformed == Init /\ [][NextMalformed]_vars

\* C8: every request whose token list is shorter than the verb needs is
\* answered with an error response; the dispatcher never reads past the end of
\* the token list.
C8_ShortRequestIsError ==
    (Dispatched /\ buffer \in ShortRequests) =>
       /\ Returned
       /\ ResponseStatus(response) # "OK"

\* C9: a request with a non-numeric value where a number is required produces
\* exactly one error response; no exception leaves processRequest, and the
\* listener stays connected and reads the next request.
C9_NonNumericIsError ==
    (buffer \in NonNumericRequests) =>
       /\ Dispatched =>
             /\ Returned
             /\ ResponseStatus(response) # "OK"
       /\ pc = "checkstop" => (~shouldStop /\ hPipe = "valid")

\* C10: a request that fails (a response with a status other than OK) leaves
\* the label store, the target, the registry and the stop flag unchanged; a
\* SET RGB or SET XY whose second or third value is invalid changes no channel
\* and no coordinate of the active label.
C10_FailureChangesNothing ==
    /\ (Returned /\ ResponseStatus(response) # "OK") =>
          /\ textInfos = entry.textInfos
          /\ textInfoTarget = entry.textInfoTarget
          /\ msgToAction = entry.msgToAction
          /\ shouldStop = entry.shouldStop
    /\ (Dispatched /\ buffer \in InvalidValueRequests /\ entry.textInfos # <<>>) =>
          textInfos = entry.textInfos

(***************************************************************************)
(* Stopping: STOP, the last response and the end of the loop.              *)
(***************************************************************************)
RequestsStop ==
    {"STOP", "NEW_TEXTINFO", "CLEAR", "GET,TEXTINFOCOUNT", "SET,TEXT,hi", "GET,TEXT"}

NextStop ==
    \/ LoopTest
    \/ ConnectNamedPipe(0)
    \/ ReadFile(RequestsStop)
    \/ Dispatch(0)
    \/ WriteFile(BOOLEAN)
    \/ CheckStop
    \/ DisconnectNamedPipe

SpecStop == Init /\ [][NextStop]_vars

\* the request in the buffer is a STOP
IsStop(req) == Head(split(req, TRANSPORT_DELIM)) = "STOP"

\* C11: when processRequest returns from a STOP the stop flag is set, the
\* response is the OK line and the handle is still open; the handle is closed
\* only in a step that finds the stop flag set and WriteFile already called
\* for the OK line of that STOP.
C11_StopAnsweredBeforeClose ==
    /\ [](Returned /\ IsStop(buffer) =>
             shouldStop /\ response = "OK,\n" /\ hPipe = "valid" /\ ~written)
    /\ [][hPipe' # hPipe =>
             /\ hPipe' = "invalid"
             /\ shouldStop /\ IsStop(buffer)
             /\ written /\ response = "OK,\n"]_vars

C11_Witness ==
    /\ pc = "disconnect" /\ hPipe = "invalid"
    /\ shouldStop /\ buffer = "STOP"
    /\ written /\ ~broken /\ response = "OK,\n"

\* the worker thread is scheduled: the steps of the loop that wait for nothing
\* outside the process are taken
SpecStopFair ==
    /\ SpecStop
    /\ WF_vars(CheckStop)
    /\ WF_vars(DisconnectNamedPipe)
    /\ WF_vars(LoopTest)

\* the positions of the worker between the end of a connection and the end of
\* the thread function
Leaving == {"disconnect", "loop", "exited"}

\* C12: the step that finds the stop flag set invalidates the handle; once the
\* handle is invalid it stays invalid and the worker is never again at
\* ConnectNamedPipe, ReadFile, processRequest or WriteFile; and the worker
\* reaches the end of the thread function.
C12_StopIsTerminal ==
    /\ [][pc = "checkstop" /\ shouldStop => hPipe' = "invalid"]_vars
    /\ [][hPipe = "invalid" => hPipe' = "invalid" /\ pc' \in Leaving]_vars
    /\ (pc = "checkstop" /\ shouldStop) ~> (pc = "exited")

C12_Witness == pc = "exited" /\ shouldStop /\ hPipe = "invalid" /\ written

(***************************************************************************)
(* Reconnecting: the peer goes away and another client connects.           *)
(***************************************************************************)
RequestsReconnect ==
    {"SET,TEXT,hi", "GET,TEXT", "SET,TEXTINFO_TARGET,0", "SET,WIN_MSG,100,calc.exe",
     "STOP"}

NextReconnect ==
    \/ LoopTest
    \/ ConnectNamedPipe(MaxConnections)
    \/ ReadFile(RequestsReconnect)
    \/ Dispatch(0)
    \/ WriteFile(BOOLEAN)
    \/ CheckStop
    \/ DisconnectNamedPipe

\* the worker thread is scheduled: DisconnectNamedPipe and the loop test, which
\* wait for nothing outside the process, are taken
SpecReconnect ==
    /\ Init /\ [][NextReconnect]_vars
    /\ WF_vars(DisconnectNamedPipe)
    /\ WF_vars(LoopTest)

\* C13: while the stop flag is not set, a worker that lost its peer has a valid
\* handle and comes back to ConnectNamedPipe; a client accepted there is read
\* from, a request read is dispatched and its response handed to WriteFile
\* before anything else; no step other than processRequest changes the label
\* store, the target or the registry.
C13_ReconnectKeepsState ==
    /\ [](~shouldStop /\ pc \in {"disconnect", "connect", "read"} => hPipe = "valid")
    /\ (pc = "disconnect" /\ ~shouldStop) ~> (pc = "connect")
    /\ [][pc = "connect" /\ connections' # connections => pc' = "read"]_vars
    /\ [][pc = "process" => pc' = "write"]_vars
    /\ [][pc = "write" => pc' = "checkstop" /\ written']_vars
    /\ [][pc # "process" => UNCHANGED <<textInfos, textInfoTarget, msgToAction>>]_vars

C13_Witness ==
    /\ connections = MaxConnections
    /\ pc = "checkstop" /\ written /\ ~broken
    /\ buffer = "GET,TEXT" /\ response = "OK,hi,\n"
    /\ msgToAction # <<>>
    /\ textInfoTarget.has

(***************************************************************************)
(* Rendering while the worker serves requests.                             *)
(***************************************************************************)
RequestsPaint == {"NEW_TEXTINFO", "CLEAR", "SET,TEXT,hi", "PAINT"}

NextPaint ==
    \/ LoopTest
    \/ ConnectNamedPipe(0)
    \/ ReadFile(RequestsPaint)
    \/ Dispatch(0)
    \/ WriteFile({TRUE})
    \/ CheckStop
    \/ DisconnectNamedPipe
    \/ PaintBegin
    \/ PaintLabel
    \/ PaintEnd

SpecPaint == Init /\ [][NextPaint]_vars

\* C14: while a render loop is under way the label store is changed by no step
\* but the loop's own (a worker step moves the worker on, a render step does
\* not), and the loop never goes through an iterator of a label that was
\* removed or moved.
C14_RenderSerialized ==
    /\ [][paint.at # 0 /\ textInfos' # textInfos => pc' = pc]_vars
    /\ [](~paint.used)

(***************************************************************************)
(* Window messages while the worker serves SET WIN_MSG.                    *)
(***************************************************************************)
RequestsHandler ==
    {"SET,WIN_MSG,100,calc.exe", "SET,WIN_MSG,100,notepad.exe", "SET,WIN_MSG,100",
     "SET,WIN_MSG,200,calc.exe", "SET,WIN_MSG,200"}

\* the message ids the window procedure hands to msgHandler
Messages == {100, 200, 300}

NextHandler ==
    \/ LoopTest
    \/ ConnectNamedPipe(0)
    \/ ReadFile(RequestsHandler)
    \/ Dispatch(0)
    \/ WriteFile({TRUE})
    \/ CheckStop
    \/ DisconnectNamedPipe
    \/ HandlerFind(Messages)
    \/ HandlerRun

SpecHandler == Init /\ [][NextHandler]_vars

\* the strings the requests of this specification store for message id msg
StoredFor(msg) ==
    {split(req, TRANSPORT_DELIM)[4] :
        req \in {r \in RequestsHandler :
                   /\ Len(split(r, TRANSPORT_DELIM)) = 4
                   /\ split(r, TRANSPORT_DELIM)[3] = to_string_unsigned(msg)}}

\* C15: no step of msgHandler changes the action registry, and a call that
\* reaches system() runs a string that a SET WIN_MSG stored for that message
\* id, whatever the worker does between the find and the read.
C15_HandlerIsPureLookup ==
    /\ [][handler' # handler => msgToAction' = msgToAction]_vars
    /\ [](handler.ran => handler.cmd \in StoredFor(handler.msg))

(***************************************************************************)
(* The host destroys the ControlPipe object.                               *)
(***************************************************************************)
RequestsShutdown == {"NEW_TEXTINFO", "GET,TEXTINFOCOUNT", "SET,TEXT,hi", "STOP"}

NextShutdown ==
    \/ LoopTest
    \/ ConnectNamedPipe(0)
    \/ ReadFile(RequestsShutdown)
    \/ Dispatch(0)
    \/ WriteFile({TRUE})
    \/ CheckStop
    \/ DisconnectNamedPipe
    \/ Destructor
    \/ ThreadDestructor

\* both threads are scheduled: the steps that wait for nothing outside the
\* process are taken; ConnectNamedPipe and ReadFile return when a client acts
\* or the call fails, and when the host destroys the object is its own choice
SpecShutdown ==
    /\ Init /\ [][NextShutdown]_vars
    /\ WF_vars(LoopTest)
    /\ WF_vars(CheckStop)
    /\ WF_vars(DisconnectNamedPipe)
    /\ WF_vars(ThreadDestructor)

\* C16: once the host has begun to shut the listener down while the worker is
\* parked in ConnectNamedPipe or ReadFile, the worker reaches the end of its
\* thread function, whether or not a client connects or sends anything.
C16_ShutdownUnblocksWorker ==
    (host # "running" /\ pc \in {"connect", "read"}) ~> (pc = "exited")

(***************************************************************************)
(* Starting without an endpoint.                                           *)
(***************************************************************************)
\* C17: when CreateNamedPipe failed, so that the worker left its loop with no
\* endpoint and no stop requested, the constructor has reported the failure
\* to the host.
C17_StartupFailureReported ==
    (hPipe = "invalid" /\ ~shouldStop /\ pc = "exited") => host = "failed"

(***************************************************************************)
(* Transport failures.                                                     *)
(***************************************************************************)
\* C18: the step in which a ReadFile or a WriteFile fails leaves the stop flag
\* as it was, and on a connection on which one has failed no request is handed
\* to processRequest any more.
C18_TransportFailureEndsConnection ==
    /\ [][broken' /\ ~broken => shouldStop' = shouldStop]_vars
    /\ [](broken => pc \notin {"process", "write"})

(***************************************************************************)
(* The bytes of a response.                                                *)
(***************************************************************************)
RequestsWire ==
    {"SET,RGB,255,0,0", "GET,RGB", "SET,TEXT,hi", "GET,TEXT", "GET,XY", "BOGUS"}

NextWire ==
    \/ LoopTest
    \/ ConnectNamedPipe(0)
    \/ ReadFile(RequestsWire)
    \/ Dispatch(HistLen)
    \/ WriteFile({TRUE})
    \/ CheckStop
    \/ DisconnectNamedPipe

SpecWire == Init /\ [][NextWire]_vars

\* the line for a status and up to three fields, written out
Wire(status, fields) ==
    CASE Len(fields) = 0 -> status \o "," \o "\n"
      [] Len(fields) = 1 -> status \o "," \o fields[1] \o "," \o "\n"
      [] Len(fields) = 2 ->
            status \o "," \o fields[1] \o "," \o fields[2] \o "," \o "\n"
      [] Len(fields) = 3 ->
            status \o "," \o fields[1] \o "," \o fields[2] \o "," \o fields[3]
                   \o "," \o "\n"

\* line ends with a newline and holds no other
OneLine(line) ==
    /\ Len(line) >= 1
    /\ CharAt(line, Len(line)) = "\n"
    /\ \A i \in 1..(Len(line) - 1) : CharAt(line, i) # "\n"

\* C19: what processRequest returns is one line: the status, a comma, each
\* field in the order it was added followed by a comma, and one newline at the
\* end; for each request of this specification it is the line of the status
\* and the fields that request yields on the active label.
C19_ResponseIsOneLine ==
    Returned =>
        LET label == textInfos[Len(textInfos)]
        IN /\ OneLine(response)
           /\ response =
                 CASE buffer = "GET,RGB" ->
                         Wire("OK", <<to_string_unsigned(label.red),
                                      to_string_unsigned(label.green),
                                      to_string_unsigned(label.blue)>>)
                   [] buffer = "GET,XY" ->
                         Wire("OK", <<to_string_long(label.left),
                                      to_string_long(label.top)>>)
                   [] buffer = "GET,TEXT" -> Wire("OK", <<label.text>>)
                   [] buffer = "BOGUS" -> Wire("BadCommand", <<>>)
                   [] OTHER -> Wire("OK", <<>>)

C19_Witness ==
    /\ Returned
    /\ buffer = "GET,RGB"
    /\ textInfos[Len(textInfos)].red = 255
    /\ response = "OK,255,0,0,\n"

\* the two requests a fresh listener has answered are SET RGB,255,0,0 and then
\* GET RGB
FreshSetThenGet ==
    /\ Len(hist) = 2
    /\ hist[1].count = 0
    /\ hist[1].req = "SET,RGB,255,0,0"
    /\ hist[2].req = "GET,RGB"

\* C20 as claimed: on a fresh listener the reply to GET RGB after
\* SET RGB,255,0,0 is OK,255,0,0 and a newline, nothing else.
C20_ReplyWithoutLastComma == FreshSetThenGet => hist[2].resp = "OK,255,0,0\n"

\* C20: on a fresh listener the reply to GET RGB after SET RGB,255,0,0 is
\* OK,255,0,0, (each field followed by a comma) and a newline, nothing else,
\* and the SET was answered with OK, and a newline.
C20_ReplyWithLastComma ==
    FreshSetThenGet =>
        /\ hist[1].resp = "OK,\n"
        /\ hist[2].resp = "OK,255,0,0,\n"

C20_Witness == FreshSetThenGet /\ hist[2].resp = "OK,255,0,0,\n" /\ written

(***************************************************************************)
(* The status tokens of a response.                                        *)
(***************************************************************************)
\* requests with an unknown verb or an unknown sub-key
UnknownRequests == {"", "BOGUS", "GET,BOGUS", "SET,BOGUS"}

\* requests that resolve the active label before they answer
ResolvingRequests == {"GET,TEXT", "SET,TEXT,hi", "GET,TRANSPORT_VERSION"}

RequestsStatus ==
    UnknownRequests \cup ResolvingRequests \cup
    {"NEW_TEXTINFO", "GET,TEXTINFOCOUNT",
     "SET,TEXTINFO_TARGET,5", "SET,TEXTINFO_TARGET",
     "SET,WIN_MSG,100", "SET,WIN_MSG,100,calc.exe"}

NextStatus ==
    \/ LoopTest
    \/ ConnectNamedPipe(0)
    \/ ReadFile(RequestsStatus)
    \/ Dispatch(0)
    \/ WriteFile({TRUE})
    \/ CheckStop
    \/ DisconnectNamedPipe

SpecStatus == Init /\ [][NextStatus]_vars

StatusTokens == {"OK", "BadCommand", "TextInfoTargetInvalid", "MSG_NOT_FOUND"}

\* C21: every response processRequest returns has a status out of OK,
\* BadCommand, TextInfoTargetInvalid and MSG_NOT_FOUND; an unknown verb or
\* sub-key is answered with BadCommand and nothing else is, an explicit target
\* that does not resolve is answered with TextInfoTargetInvalid and nothing
\* else is, removing an unmapped message is answered with MSG_NOT_FOUND and
\* nothing else is; a response with one or more fields has the status OK.
C21_StatusFromClosedSet ==
    Returned =>
        /\ ResponseStatus(response) \in StatusTokens
        /\ ResponseFields(response) # <<>> => ResponseStatus(response) = "OK"
        /\ ResponseStatus(response) = "BadCommand" <=> buffer \in UnknownRequests
        /\ ResponseStatus(response) = "TextInfoTargetInvalid"
              <=> (buffer \in ResolvingRequests /\ TargetPastEnd(TheMembers))
        /\ ResponseStatus(response) = "MSG_NOT_FOUND"
              <=> (buffer = "SET,WIN_MSG,100" /\ 100 \notin DOMAIN entry.msgToAction)

C21_Witness ==
    /\ Returned
    /\ buffer = "SET,WIN_MSG,100"
    /\ 100 \notin DOMAIN entry.msgToAction
    /\ response = "MSG_NOT_FOUND,\n"
    /\ entry.textInfoTarget.has

(***************************************************************************)
(* The target selector.                                                    *)
(***************************************************************************)
\* SET TEXTINFO_TARGET,n with a non-negative n that fits a 64-bit size_t
SetTargetInRange ==
    {"SET,TEXTINFO_TARGET,0", "SET,TEXTINFO_TARGET,18446744073709551615"}

\* SET TEXTINFO_TARGET,n with any non-negative n
SetTargetRequests == SetTargetInRange \cup {"SET,TEXTINFO_TARGET,18446744073709551616"}

RequestsSelector ==
    SetTargetRequests \cup
    {"SET,TEXTINFO_TARGET", "GET,TEXTINFO_TARGET", "GET,TEXT", "CLEAR"}

NextSelector ==
    \/ LoopTest
    \/ ConnectNamedPipe(0)
    \/ ReadFile(RequestsSelector)
    \/ Dispatch(HistLen)
    \/ WriteFile({TRUE})
    \/ CheckStop
    \/ DisconnectNamedPipe

SpecSelector == Init /\ [][NextSelector]_vars

\* the newest three requests answered are GET TEXTINFO_TARGET, CLEAR and
\* GET TEXTINFO_TARGET
GetClearGet ==
    /\ Len(hist) >= 3
    /\ hist[Len(hist) - 2].req = "GET,TEXTINFO_TARGET"
    /\ hist[Len(hist) - 1].req = "CLEAR"
    /\ hist[Len(hist)].req = "GET,TEXTINFO_TARGET"

\* C22: CLEAR leaves the target selector as it was before the request, unset
\* or the same explicit index, and GET TEXTINFO_TARGET is answered with the
\* same line before and after a CLEAR.
C22_ClearKeepsTarget ==
    /\ (Returned /\ buffer = "CLEAR") =>
          /\ textInfoTarget = entry.textInfoTarget
          /\ response = "OK,\n"
    /\ GetClearGet => hist[Len(hist)].resp = hist[Len(hist) - 2].resp

C22_Witness ==
    /\ GetClearGet
    /\ hist[Len(hist) - 2].resp = "OK,0,\n"
    /\ hist[Len(hist)].resp = "OK,0,\n"
    /\ textInfoTarget = SomeTarget("0")

\* the index token of a SET TEXTINFO_TARGET,n request
TargetIndex(req) == split(req, TRANSPORT_DELIM)[3]

\* SET TEXTINFO_TARGET,n for each n of the requests sets: it is answered with
\* OK and n is the explicit target; the next GET TEXTINFO_TARGET is answered
\* with n; the request with no index is answered with OK and unsets the target,
\* and the next GET TEXTINFO_TARGET is answered with None; an n at or past the
\* label count is an error only when the next request resolves the active
\* label.
SetTargetThenGet(sets) ==
    /\ (Dispatched /\ buffer \in sets) =>
          /\ Returned
          /\ response = "OK,\n"
          /\ textInfoTarget = SomeTarget(TargetIndex(buffer))
    /\ (Dispatched /\ buffer = "SET,TEXTINFO_TARGET") =>
          /\ Returned
          /\ response = "OK,\n"
          /\ textInfoTarget = NoTarget
    /\ \A i \in 1 .. Len(hist) - 1 :
          LET a == hist[i]
              b == hist[i + 1]
          IN /\ (a.req \in sets /\ b.req = "GET,TEXTINFO_TARGET") =>
                    b.resp = "OK," \o TargetIndex(a.req) \o ",\n"
             /\ (a.req = "SET,TEXTINFO_TARGET" /\ b.req = "GET,TEXTINFO_TARGET") =>
                    b.resp = "OK,None,\n"
             /\ (a.req \in sets /\ b.req = "GET,TEXT") =>
                    (ResponseStatus(b.resp) = "TextInfoTargetInvalid"
                        <=> TargetIndex(a.req) # "0")

SetFieldRequests == {"SET,RGB,1,2,3", "SET,TEXT,hi", "SET,XY,4,5"}

RequestsFrame ==
    SetFieldRequests \cup
    {"NEW_TEXTINFO", "CLEAR", "PAINT", "SET,TEXTINFO_TARGET,0", "SET,TEXTINFO_TARGET",
     "SET,WIN_MSG,100,calc.exe"}

NextFrame ==
    \/ LoopTest
    \/ ConnectNamedPipe(0)
    \/ ReadFile(RequestsFrame)
    \/ Dispatch(0)
    \/ WriteFile({TRUE})
    \/ CheckStop
    \/ DisconnectNamedPipe

SpecFrame == Init /\ [][NextFrame]_vars

\* C23: PAINT is answered with OK and leaves the label sequence, the target
\* selector, the message registry and the stop flag exactly as they were
\* before the request, from every reachable state, the empty store included.
C23_PaintChangesNothing ==
    (Dispatched /\ buffer = "PAINT") =>
        /\ Returned
        /\ response = "OK,\n"
        /\ textInfos = entry.textInfos
        /\ textInfoTarget = entry.textInfoTarget
        /\ msgToAction = entry.msgToAction
        /\ shouldStop = entry.shouldStop

\* the fields of a label that a request of SetFieldRequests names
NamedFields(req) ==
    CASE req = "SET,RGB,1,2,3" -> {"red", "green", "blue"}
      [] req = "SET,TEXT,hi" -> {"text"}
      [] req = "SET,XY,4,5" -> {"left", "top"}

\* the labels a request finds once the store has been made non-empty
FoundLabels(m) == IF m.textInfos = <<>> THEN <<TextInfo>> ELSE m.textInfos

\* the index (from 1) of the active label of the members m
ActiveLabel(m) ==
    IF m.textInfoTarget.has THEN SizeVal(m.textInfoTarget.val) + 1
    ELSE Len(FoundLabels(m))

\* C25: a SET RGB, SET TEXT or SET XY answered with OK changes only the named
\* fields of the active label (the label at the explicit target index, the
\* last label when the target is unset): the label count of a non-empty store
\* is the same, every other label keeps its index and all its fields, the
\* active label keeps its other fields and its extent, and the target
\* selector, the registry and the stop flag are the same.
C25_SetChangesOnlyNamedField ==
    (Returned /\ buffer \in SetFieldRequests /\ response = "OK,\n") =>
        /\ Len(textInfos) = Len(FoundLabels(entry))
        /\ \A i \in 1 .. Len(textInfos) : \A f \in DOMAIN TextInfo :
              (i # ActiveLabel(entry) \/ f \notin NamedFields(buffer)) =>
                  textInfos[i][f] = FoundLabels(entry)[i][f]
        /\ textInfoTarget = entry.textInfoTarget
        /\ msgToAction = entry.msgToAction
        /\ shouldStop = entry.shouldStop

C25_Witness ==
    /\ Returned
    /\ buffer = "SET,TEXT,hi"
    /\ response = "OK,\n"
    /\ entry.textInfoTarget = SomeTarget("0")
    /\ Len(entry.textInfos) = 2
    /\ entry.textInfos[1].text = ""
    /\ entry.textInfos[2].red = 1
    /\ textInfos[1].text = "hi"
    /\ textInfos[2] = entry.textInfos[2]

(***************************************************************************)
(* The store is made non-empty at the head of every request.               *)
(***************************************************************************)
\* requests that do not write the label store themselves
StoreReaders ==
    {"PAINT", "BOGUS", "GET,TEXTINFOCOUNT", "GET,TEXT",
     "SET,TEXTINFO_TARGET,5", "SET,TEXTINFO_TARGET"}

RequestsNonEmpty == StoreReaders \cup {"NEW_TEXTINFO", "CLEAR"}

NextNonEmpty ==
    \/ LoopTest
    \/ ConnectNamedPipe(0)
    \/ ReadFile(RequestsNonEmpty)
    \/ Dispatch(0)
    \/ WriteFile({TRUE})
    \/ CheckStop
    \/ DisconnectNamedPipe

SpecNonEmpty == Init /\ [][NextNonEmpty]_vars

\* C26: whatever the command and the target selector, processRequest first
\* appends one default label when the store is empty: after any request other
\* than CLEAR the label count is at least 1, a request that does not write the
\* store leaves an empty store with exactly the default label and a non-empty
\* store as it was, and GET TEXTINFOCOUNT never answers 0.
C26_StoreMadeNonEmptyFirst ==
    /\ (Dispatched /\ buffer # "CLEAR") => Len(textInfos) >= 1
    /\ (Dispatched /\ buffer \in StoreReaders) =>
          textInfos = IF entry.textInfos = <<>> THEN <<TextInfo>> ELSE entry.textInfos
    /\ (Dispatched /\ buffer = "GET,TEXTINFOCOUNT") =>
          /\ Returned
          /\ ResponseStatus(response) = "OK"
          /\ ResponseFields(response) = <<NatToString(Len(textInfos))>>
          /\ ResponseFields(response) # <<"0">>

C26_Witness ==
    /\ Returned
    /\ buffer = "GET,TEXTINFOCOUNT"
    /\ entry.textInfos = <<>>
    /\ entry.textInfoTarget = SomeTarget("5")
    /\ response = "OK,1,\n"
    /\ textInfos = <<TextInfo>>

(***************************************************************************)
(* GET TRANSPORT_VERSION.                                                  *)
(***************************************************************************)
RequestsVersion ==
    {"GET,TRANSPORT_VERSION", "NEW_TEXTINFO", "CLEAR",
     "SET,TEXTINFO_TARGET,0", "SET,TEXTINFO_TARGET,1", "SET,TEXTINFO_TARGET"}

NextVersion ==
    \/ LoopTest
    \/ ConnectNamedPipe(0)
    \/ ReadFile(RequestsVersion)
    \/ Dispatch(0)
    \/ WriteFile({TRUE})
    \/ CheckStop
    \/ DisconnectNamedPipe

SpecVersion == Init /\ [][NextVersion]_vars

\* C27: GET TRANSPORT_VERSION is answered with TextInfoTargetInvalid and no
\* fields whenever the explicit target index is >= the label count, and with
\* OK and the single field 1 otherwise, that is exactly when the active label
\* resolves.
C27_VersionNeedsResolvedLabel ==
    (Dispatched /\ buffer = "GET,TRANSPORT_VERSION") =>
        /\ Returned
        /\ response = IF TargetPastEnd(entry) THEN "TextInfoTargetInvalid,\n"
                      ELSE "OK,1,\n"

====
